---- MODULE Spec2Model ----
(***************************************************************************)
(* A model of CSVParser.h: CSVReader<Fields...> over a std::istream, and   *)
(* its nested input iterator.                                              *)
(*                                                                         *)
(* A character is a one-character string, a text is a sequence of          *)
(* characters.  A stream is the record [buf, pos, eof, fail]: the bytes,   *)
(* the number of bytes already extracted, and the eofbit and failbit of    *)
(* the std::ios state.                                                     *)
(***************************************************************************)
EXTENDS Integers, Sequences, FiniteSets, TLC

\* ------------------------------------------------------------------ bounds
\* Longest enumerated input, in characters.
MaxLen == 2

\* Characters the enumerated inputs are built from.
Alphabet == {"1", ",", "\n"}

\* The reader instances and the iterator objects of a run, numbered in the
\* order of their construction.
Readers == {1, 2}
Cursors == {1, 2}

\* Values an int that was never written may be read as.
Indeterminate == {0, 77}

\* ----------------------------------------------------------- text helpers
Whitespace == {" ", "\n"}

DigitVal == [d \in {"0", "1", "2", "3", "4", "5", "6", "7", "8", "9"} |->
               CASE d = "0" -> 0 [] d = "1" -> 1 [] d = "2" -> 2 [] d = "3" -> 3
                 [] d = "4" -> 4 [] d = "5" -> 5 [] d = "6" -> 6 [] d = "7" -> 7
                 [] d = "8" -> 8 [] d = "9" -> 9]

Digits == DOMAIN DigitVal

RECURSIVE Texts(_)
Texts(n) == IF n = 0 THEN {<<>>}
            ELSE LET shorter == Texts(n - 1)
                 IN shorter \cup {Append(t, ch) : t \in {u \in shorter : Len(u) = n - 1},
                                                  ch \in Alphabet}

\* ------------------------------------------------------------ field values
\* A field value is tagged with its C++ type: int or std::string.
IntVal(n) == [kind |-> "int", n |-> n, s |-> <<>>]
StrVal(s) == [kind |-> "str", n |-> 0, s |-> s]

\* Value-initialised element of std::tuple<Fields...>.
DefaultVal(T) == IF T = "int" THEN IntVal(0) ELSE StrVal(<<>>)

\* ------------------------------------------------------------- the stream
NewStream(buf) == [buf |-> buf, pos |-> 0, eof |-> FALSE, fail |-> FALSE]

\* Position of the first delim after the bytes already extracted, or 0.
FindDelim(s, delim) ==
    LET hits == {i \in (s.pos + 1)..Len(s.buf) : s.buf[i] = delim}
    IN IF hits = {} THEN 0 ELSE CHOOSE i \in hits : \A j \in hits : i <= j

\* std::getline(is, str, delim) on a fresh str: the sentry fails on a stream
\* that is not good() and sets failbit; otherwise characters are taken up to
\* delim (extracted, not stored) or to the end of the input (eofbit); taking
\* no character at all sets failbit.
getline(s, delim) ==
    IF s.eof \/ s.fail
    THEN [str |-> <<>>, s |-> [s EXCEPT !.fail = TRUE]]
    ELSE LET stop == FindDelim(s, delim)
         IN IF stop = 0
            THEN [str |-> SubSeq(s.buf, s.pos + 1, Len(s.buf)),
                  s   |-> [s EXCEPT !.pos = Len(s.buf), !.eof = TRUE,
                                    !.fail = (s.pos = Len(s.buf))]]
            ELSE [str |-> SubSeq(s.buf, s.pos + 1, stop - 1),
                  s   |-> [s EXCEPT !.pos = stop]]

\* ------------------------------------------------------ operator>> on a field
RECURSIVE SkipWs(_)
SkipWs(t) == IF t # <<>> /\ Head(t) \in Whitespace THEN SkipWs(Tail(t)) ELSE t

RECURSIVE TakeWhile(_, _)
TakeWhile(t, S) == IF t # <<>> /\ Head(t) \in S
                   THEN <<Head(t)>> \o TakeWhile(Tail(t), S) ELSE <<>>

RECURSIVE Word(_)
Word(t) == IF t # <<>> /\ Head(t) \notin Whitespace
           THEN <<Head(t)>> \o Word(Tail(t)) ELSE <<>>

RECURSIVE Decimal(_)
Decimal(ds) == IF ds = <<>> THEN 0
               ELSE 10 * Decimal(SubSeq(ds, 1, Len(ds) - 1)) + DigitVal[ds[Len(ds)]]

\* std::stringstream(tmp) >> t for int t, t declared without an initialiser:
\* the sentry skips whitespace and fails at the end of the text, leaving t
\* unwritten; otherwise num_get takes the leading digits, and stores 0 when
\* there is none.  The set of values t may have afterwards.
ExtractInt(tmp) ==
    LET w == SkipWs(tmp)
    IN IF w = <<>> THEN {IntVal(n) : n \in Indeterminate}
       ELSE {IntVal(Decimal(TakeWhile(w, Digits)))}

\* std::stringstream(tmp) >> t for std::string t (default-constructed): the
\* word after the leading whitespace, or t left empty when there is none.
ExtractStr(tmp) == {StrVal(Word(SkipWs(tmp)))}

Extract(T, tmp) == IF T = "int" THEN ExtractInt(tmp) ELSE ExtractStr(tmp)

\* ------------------------------------------------------------------ state
VARIABLES
    Fields,       \* the template arguments Fields..., a sequence of types
    evalOrder,    \* the order in which the build evaluates the arguments of
                  \* std::tuple<Fields...>(parse<Fields>(ss)...): evalOrder[k]
                  \* is the field whose parse call runs k-th
    constructed,  \* the readers constructed so far
    stream,       \* stream[r]: the std::istream reader r refers to (stream_)
    cursor,       \* cursor[c]: iterator c, [made, reader, current_]
    origin,       \* history: the reader Begin bound c to; NullReader for End()
    produced,     \* history: produced[r], the rows next_row returned on r
    lastOp        \* the last call and what it returned or threw

vars == <<Fields, evalOrder, constructed, stream, cursor, origin, produced, lastOp>>

\* nullptr
NullReader == 0

\* The default separator of the constructor.
separator_ == ","

N == Len(Fields)

\* The instantiations CSVReader<int> and CSVReader<int, std::string>.
FieldLists == {<<"int">>, <<"int", "str">>}

LeftToRight(n) == [k \in 1..n |-> k]
RightToLeft(n) == [k \in 1..n |-> n + 1 - k]

\* The scenarios of the specification, and inputs longer than MaxLen.
ExtraInputs ==
    { <<"1", ",", "h", "e", "l", "l", "o", "\n", "2", ",", "w", "o", "r", "l", "d", "\n">>,
      <<"7", ",", "8", ",", "9", "\n">>,
      <<"5", "\n">>,
      <<"5", "\n", "6", ",", "a">>,
      <<"a", ",", "b">>,
      <<"1", ",", "a", ",", "2", "\n", "3", ",", " ", "b">> }

Inputs == Texts(MaxLen) \cup ExtraInputs

\* The input of the second reader.
OtherInput == <<"2", ",", "b">>

\* ----------------------------------------------------------- CSVReader
\* parse<T> that calls std::getline(ss, tmp) without the separator.
parse_wholeline(T, ss) ==
    LET g == getline(ss, "\n")
    IN [vals |-> Extract(T, g.str), seg |-> g.str, ss |-> g.s]

\* parse<T>(ss): one getline on the line's stringstream up to separator_,
\* then the extraction of a T from the text taken.  vals is the set of
\* values the call may return, seg the text it converted.
parse(T, ss) ==
    LET g == getline(ss, separator_)
    IN [vals |-> Extract(T, g.str), seg |-> g.str, ss |-> g.s]

\* has_next_row as stream_.peek() != EOF: looking at the end of the input
\* sets eofbit.
has_next_row_peek(s) ==
    LET atEnd == s.eof \/ s.fail \/ s.pos = Len(s.buf)
    IN [ret |-> ~atEnd, s |-> [s EXCEPT !.eof = s.eof \/ (~s.fail /\ atEnd)]]

\* has_next_row() const: !stream_.eof().  s is the stream afterwards.
has_next_row(s) == [ret |-> ~s.eof, s |-> s]

\* The line's stringstream after the first k parse calls of a row.
RECURSIVE ssAfter(_, _)
ssAfter(line, k) ==
    IF k = 0 THEN NewStream(line)
    ELSE parse(Fields[evalOrder[k]], ssAfter(line, k - 1)).ss

\* The position of field i's parse call among the N calls of a row.
CallOf(i) == CHOOSE k \in 1..N : evalOrder[k] = i

\* next_row without its first line: it reads whatever the stream state is.
next_row_nocheck(s) ==
    LET g == getline(s, "\n")
        call(i) == parse(Fields[i], ssAfter(g.str, CallOf(i) - 1))
        rows == {row \in [1..N -> UNION {call(i).vals : i \in 1..N}] :
                    \A i \in 1..N : row[i] \in call(i).vals}
    IN {[err |-> "", s |-> g.s, row |-> row, text |-> g.str,
         segs |-> [i \in 1..N |-> call(i).seg]] : row \in rows}

\* next_row(): throws at eofbit; otherwise takes one line from stream_ and
\* builds the tuple from N parse calls on it, run in the build's order.
\* The set of outcomes [err, s, row, text, segs].
next_row(s) ==
    IF ~has_next_row(s).ret
    THEN {[err |-> "out_of_range", s |-> s, row |-> <<>>, text |-> <<>>, segs |-> <<>>]}
    ELSE LET g == getline(s, "\n")
             call(i) == parse(Fields[i], ssAfter(g.str, CallOf(i) - 1))
             rows == {row \in [1..N -> UNION {call(i).vals : i \in 1..N}] :
                         \A i \in 1..N : row[i] \in call(i).vals}
         IN {[err |-> "", s |-> g.s, row |-> row, text |-> g.str,
              segs |-> [i \in 1..N |-> call(i).seg]] : row \in rows}

\* ------------------------------------------------------------- iterator
\* iterator(): reader(nullptr), current_ value-initialised.
iterator_default == [made |-> TRUE, reader |-> NullReader,
                     current_ |-> [i \in 1..N |-> DefaultVal(Fields[i])]]

\* A slot no iterator has been constructed in yet.
NoIterator == [made |-> FALSE, reader |-> NullReader, current_ |-> <<>>]

\* operator++ without its first line: advancing a null iterator returns.
operator_inc_silent(it, streams) ==
    IF it.reader = NullReader
    THEN {[err |-> "", it |-> it, streams |-> streams, got |-> <<>>]}
    ELSE LET h == has_next_row(streams[it.reader])
         IN IF ~h.ret
            THEN {[err |-> "", it |-> [it EXCEPT !.reader = NullReader],
                   streams |-> streams, got |-> <<>>]}
            ELSE {[err |-> n.err,
                   it |-> IF n.err = "" THEN [it EXCEPT !.current_ = n.row] ELSE it,
                   streams |-> [streams EXCEPT ![it.reader] = n.s],
                   got |-> IF n.err = "" THEN <<n>> ELSE <<>>]
                  : n \in next_row(streams[it.reader])}

\* operator++ that marks the end in current_ and keeps the reader: a null
\* iterator that is advanced picks a reader up again.
operator_inc_restart(it, streams) ==
    LET r == IF it.reader = NullReader THEN CHOOSE q \in constructed : TRUE
             ELSE it.reader
        h == has_next_row(streams[r])
    IN IF ~h.ret /\ it.reader # NullReader
       THEN {[err |-> "", it |-> [it EXCEPT !.reader = NullReader],
              streams |-> streams, got |-> <<>>]}
       ELSE IF ~h.ret
       THEN {[err |-> "", it |-> [it EXCEPT !.reader = r],
              streams |-> streams, got |-> <<>>]}
       ELSE {[err |-> n.err,
              it |-> IF n.err = "" THEN [it EXCEPT !.current_ = n.row, !.reader = r]
                     ELSE it,
              streams |-> [streams EXCEPT ![r] = n.s],
              got |-> IF n.err = "" THEN <<n>> ELSE <<>>]
             : n \in next_row(streams[r])}

\* operator++ that also resets current_ when it nulls the reader.
operator_inc_drop(it, streams) ==
    IF it.reader = NullReader
    THEN {[err |-> "out_of_range", it |-> it, streams |-> streams, got |-> <<>>]}
    ELSE LET h == has_next_row(streams[it.reader])
         IN IF ~h.ret
            THEN {[err |-> "", it |-> iterator_default, streams |-> streams, got |-> <<>>]}
            ELSE {[err |-> n.err,
                   it |-> IF n.err = "" THEN [it EXCEPT !.current_ = n.row] ELSE it,
                   streams |-> [streams EXCEPT ![it.reader] = n.s],
                   got |-> IF n.err = "" THEN <<n>> ELSE <<>>]
                  : n \in next_row(streams[it.reader])}

\* operator++ that calls next_row() and does not assign the result.
operator_inc_nostore(it, streams) ==
    IF it.reader = NullReader
    THEN {[err |-> "out_of_range", it |-> it, streams |-> streams, got |-> <<>>]}
    ELSE LET h == has_next_row(streams[it.reader])
         IN IF ~h.ret
            THEN {[err |-> "", it |-> [it EXCEPT !.reader = NullReader],
                   streams |-> streams, got |-> <<>>]}
            ELSE {[err |-> n.err, it |-> it,
                   streams |-> [streams EXCEPT ![it.reader] = n.s],
                   got |-> IF n.err = "" THEN <<n>> ELSE <<>>]
                  : n \in next_row(streams[it.reader])}

\* operator++ that finds no next row and leaves the reader bound.
operator_inc_stuck(it, streams) ==
    IF it.reader = NullReader
    THEN {[err |-> "out_of_range", it |-> it, streams |-> streams, got |-> <<>>]}
    ELSE LET h == has_next_row(streams[it.reader])
         IN IF ~h.ret
            THEN {[err |-> "", it |-> it, streams |-> streams, got |-> <<>>]}
            ELSE {[err |-> n.err,
                   it |-> IF n.err = "" THEN [it EXCEPT !.current_ = n.row] ELSE it,
                   streams |-> [streams EXCEPT ![it.reader] = n.s],
                   got |-> IF n.err = "" THEN <<n>> ELSE <<>>]
                  : n \in next_row(streams[it.reader])}

\* operator++ that nulls the reader in the call that reads the last line.
operator_inc_eager(it, streams) ==
    IF it.reader = NullReader
    THEN {[err |-> "out_of_range", it |-> it, streams |-> streams, got |-> <<>>]}
    ELSE LET h == has_next_row(streams[it.reader])
         IN IF ~h.ret
            THEN {[err |-> "", it |-> [it EXCEPT !.reader = NullReader],
                   streams |-> streams, got |-> <<>>]}
            ELSE {[err |-> n.err,
                   it |-> IF n.err # "" THEN it
                          ELSE [it EXCEPT !.current_ = n.row,
                                          !.reader = IF n.s.eof THEN NullReader ELSE @],
                   streams |-> [streams EXCEPT ![it.reader] = n.s],
                   got |-> IF n.err = "" THEN <<n>> ELSE <<>>]
                  : n \in next_row(streams[it.reader])}

\* operator++ that calls next_row() without asking has_next_row() first.
operator_inc_nocheck(it, streams) ==
    IF it.reader = NullReader
    THEN {[err |-> "out_of_range", it |-> it, streams |-> streams, got |-> <<>>]}
    ELSE {[err |-> n.err,
           it |-> IF n.err = "" THEN [it EXCEPT !.current_ = n.row] ELSE it,
           streams |-> [streams EXCEPT ![it.reader] = n.s],
           got |-> IF n.err = "" THEN <<n>> ELSE <<>>]
          : n \in next_row(streams[it.reader])}

\* operator++ that rewinds the stream (clear(), seekg(0)) when it nulls the
\* reader.
operator_inc_rewind(it, streams) ==
    IF it.reader = NullReader
    THEN {[err |-> "out_of_range", it |-> it, streams |-> streams, got |-> <<>>]}
    ELSE LET h == has_next_row(streams[it.reader])
         IN IF ~h.ret
            THEN {[err |-> "", it |-> [it EXCEPT !.reader = NullReader],
                   streams |-> [streams EXCEPT ![it.reader] = NewStream(@.buf)],
                   got |-> <<>>]}
            ELSE {[err |-> n.err,
                   it |-> IF n.err = "" THEN [it EXCEPT !.current_ = n.row] ELSE it,
                   streams |-> [streams EXCEPT ![it.reader] = n.s],
                   got |-> IF n.err = "" THEN <<n>> ELSE <<>>]
                  : n \in next_row(streams[it.reader])}

\* operator++(): throws on a null reader; nulls the reader when it reports
\* no next row; otherwise stores next_row() in current_.  The set of
\* outcomes [err, it, streams, got]; got holds what next_row returned.
operator_inc(it, streams) ==
    IF it.reader = NullReader
    THEN {[err |-> "out_of_range", it |-> it, streams |-> streams, got |-> <<>>]}
    ELSE LET h == has_next_row(streams[it.reader])
             after == [streams EXCEPT ![it.reader] = h.s]
         IN IF ~h.ret
            THEN {[err |-> "", it |-> [it EXCEPT !.reader = NullReader],
                   streams |-> after, got |-> <<>>]}
            ELSE {[err |-> n.err,
                   it |-> IF n.err = "" THEN [it EXCEPT !.current_ = n.row] ELSE it,
                   streams |-> [after EXCEPT ![it.reader] = n.s],
                   got |-> IF n.err = "" THEN <<n>> ELSE <<>>]
                  : n \in next_row(after[it.reader])}

\* operator!= as a comparison of the whole iterator, cached Row included.
operator_ne_rows(it, other) ==
    it.reader # other.reader \/ it.current_ # other.current_

\* operator!=(other): reader != other.reader.
operator_ne(it, other) == it.reader # other.reader

\* operator*(): current_.
operator_deref(it) == it.current_

\* ------------------------------------------------------------ the calls
Op(name, a, b, err, ret, row) ==
    [op |-> name, a |-> a, b |-> b, err |-> err, ret |-> ret, row |-> row]

Record(r, c, out) ==
    IF out.got = <<>> THEN produced
    ELSE [produced EXCEPT ![r] = Append(@, [c |-> c, row |-> out.got[1].row,
                                              text |-> out.got[1].text,
                                              segs |-> out.got[1].segs])]

Init ==
    /\ Fields \in FieldLists
    /\ evalOrder \in {LeftToRight(Len(Fields)), RightToLeft(Len(Fields))}
    /\ constructed = {}
    /\ \E buf \in Inputs :
          stream = [r \in Readers |-> NewStream(IF r = 1 THEN buf ELSE OtherInput)]
    /\ cursor = [c \in Cursors |-> NoIterator]
    /\ origin = [c \in Cursors |-> NullReader]
    /\ produced = [r \in Readers |-> <<>>]
    /\ lastOp = Op("none", 0, 0, "", FALSE, <<>>)

\* A constructor that looks at the first byte of the stream it is given.
Construct_priming(r) ==
    /\ r \notin constructed
    /\ \A q \in Readers : q < r => q \in constructed
    /\ constructed' = constructed \cup {r}
    /\ stream' = [stream EXCEPT ![r] = has_next_row_peek(@).s]
    /\ lastOp' = Op("construct", r, 0, "", FALSE, <<>>)
    /\ UNCHANGED <<Fields, evalOrder, cursor, origin, produced>>

\* CSVReader(is, sep): binds stream_ and separator_.
Construct(r) ==
    /\ r \notin constructed
    /\ \A q \in Readers : q < r => q \in constructed
    /\ constructed' = constructed \cup {r}
    /\ lastOp' = Op("construct", r, 0, "", FALSE, <<>>)
    /\ UNCHANGED <<Fields, evalOrder, stream, cursor, origin, produced>>

\* begin(): iterator{*this}, whose constructor runs operator++ once.
Begin(r, c) ==
    /\ r \in constructed
    /\ ~cursor[c].made
    /\ \A d \in Cursors : d < c => cursor[d].made
    /\ \E out \in operator_inc([iterator_default EXCEPT !.reader = r], stream) :
          /\ cursor' = [cursor EXCEPT ![c] = out.it]
          /\ stream' = out.streams
          /\ produced' = Record(r, c, out)
          /\ lastOp' = Op("begin", c, r, out.err, FALSE, <<>>)
    /\ origin' = [origin EXCEPT ![c] = r]
    /\ UNCHANGED <<Fields, evalOrder, constructed>>

\* end(): iterator().
End(c) ==
    /\ constructed # {}
    /\ ~cursor[c].made
    /\ \A d \in Cursors : d < c => cursor[d].made
    /\ cursor' = [cursor EXCEPT ![c] = iterator_default]
    /\ lastOp' = Op("end", c, 0, "", FALSE, <<>>)
    /\ UNCHANGED <<Fields, evalOrder, constructed, stream, origin, produced>>

\* ++it
Advance(c) ==
    /\ cursor[c].made
    /\ \E out \in operator_inc(cursor[c], stream) :
          /\ cursor' = [cursor EXCEPT ![c] = out.it]
          /\ stream' = out.streams
          /\ produced' = Record(cursor[c].reader, c, out)
          /\ lastOp' = Op("advance", c, 0, out.err, FALSE, <<>>)
    /\ UNCHANGED <<Fields, evalOrder, constructed, origin>>

\* *it
Current(c) ==
    /\ cursor[c].made
    /\ lastOp' = Op("current", c, 0, "", FALSE, operator_deref(cursor[c]))
    /\ UNCHANGED <<Fields, evalOrder, constructed, stream, cursor, origin, produced>>

\* a != b
NotEqual(a, b) ==
    /\ cursor[a].made /\ cursor[b].made
    /\ lastOp' = Op("not_equal", a, b, "", operator_ne(cursor[a], cursor[b]), <<>>)
    /\ UNCHANGED <<Fields, evalOrder, constructed, stream, cursor, origin, produced>>

\* has_next_row() on its own.
HasNextRow(r) ==
    /\ r \in constructed
    /\ LET h == has_next_row(stream[r])
       IN /\ stream' = [stream EXCEPT ![r] = h.s]
          /\ lastOp' = Op("has_next_row", r, 0, "", h.ret, <<>>)
    /\ UNCHANGED <<Fields, evalOrder, constructed, cursor, origin, produced>>

Next ==
    \/ \E r \in Readers : Construct(r)
    \/ \E r \in Readers, c \in Cursors : Begin(r, c)
    \/ \E c \in Cursors : End(c)
    \/ \E c \in Cursors : Advance(c)
    \/ \E c \in Cursors : Current(c)
    \/ \E a \in Cursors, b \in Cursors : NotEqual(a, b)
    \/ \E r \in Readers : HasNextRow(r)

Spec == Init /\ [][Next]_vars

\* next_row() called from inside the class, outside operator++.
NextRow(r) ==
    /\ r \in constructed
    /\ \E n \in next_row(stream[r]) :
          /\ stream' = [stream EXCEPT ![r] = n.s]
          /\ produced' = IF n.err # "" THEN produced
                         ELSE [produced EXCEPT ![r] =
                                 Append(@, [c |-> 0, row |-> n.row, text |-> n.text,
                                            segs |-> n.segs])]
          /\ lastOp' = Op("next_row", r, 0, n.err, FALSE, n.row)
    /\ UNCHANGED <<Fields, evalOrder, constructed, cursor, origin>>

NextInternal ==
    \/ \E r \in Readers : Construct(r)
    \/ \E r \in Readers : HasNextRow(r)
    \/ \E r \in Readers : NextRow(r)
    \/ \E r \in Readers, c \in Cursors : Begin(r, c)
    \/ \E c \in Cursors : Advance(c)

\* The calls that reach the stream, the private next_row among them.
SpecInternal == Init /\ [][NextInternal]_vars

\* The caller's loop over the first reader:
\*   for (auto it = reader.begin(); it != reader.end(); ++it) { *it; }
\* The second iterator is the one end() returns; an exception ends the loop.
LoopNext ==
    \/ lastOp.op = "none" /\ Construct(1)
    \/ lastOp.op = "construct" /\ Begin(1, 1)
    \/ lastOp.op = "begin" /\ lastOp.err = "" /\ End(2)
    \/ lastOp.op \in {"end", "advance"} /\ lastOp.err = "" /\ NotEqual(1, 2)
    \/ lastOp.op = "not_equal" /\ lastOp.ret /\ Current(1)
    \/ lastOp.op = "current" /\ Advance(1)

LoopDone == lastOp.op = "not_equal" /\ ~lastOp.ret

\* The next statement of the loop is a call of operator++.
ReadDue == lastOp.op \in {"construct", "current"}

\* The loop runs on while it has a next statement.  operator++ returns or
\* throws from every state, so a call of it that is due is enabled, and weak
\* fairness of the calls of operator++ is written with ReadDue in the place
\* of ENABLED.
SpecLoop ==
    /\ Init /\ [][LoopNext]_vars
    /\ WF_vars(~ReadDue /\ LoopNext)
    /\ ([]<>~ReadDue \/ []<><<ReadDue /\ LoopNext>>_vars)

\* ==================================================================
\* What the specification says of a text, stated without the reader
\* ==================================================================
\* The pieces of t between the occurrences of d.
RECURSIVE SplitAt(_, _)
SplitAt(t, d) ==
    LET hits == {i \in 1..Len(t) : t[i] = d}
    IN IF hits = {} THEN <<t>>
       ELSE LET i == CHOOSE h \in hits : \A j \in hits : h <= j
            IN <<SubSeq(t, 1, i - 1)>> \o SplitAt(SubSeq(t, i + 1, Len(t)), d)

\* The lines of an input: a terminator ends a line, it does not begin one.
LinesOf(buf) ==
    LET p == SplitAt(buf, "\n")
    IN IF p[Len(p)] = <<>> THEN SubSeq(p, 1, Len(p) - 1) ELSE p

SegmentsOf(line) == SplitAt(line, separator_)

\* A segment that is a well-formed text of type T.
Conforms(T, seg) ==
    /\ seg # <<>>
    /\ \A k \in 1..Len(seg) :
          IF T = "int" THEN seg[k] \in Digits ELSE seg[k] \notin Whitespace

WellFormed(line) ==
    /\ Len(SegmentsOf(line)) = N
    /\ \A i \in 1..N : Conforms(Fields[i], SegmentsOf(line)[i])

\* The Row a well-formed line stands for.
RowOf(line) ==
    [i \in 1..N |-> IF Fields[i] = "int" THEN IntVal(Decimal(SegmentsOf(line)[i]))
                                         ELSE StrVal(SegmentsOf(line)[i])]

Made(c)      == cursor[c].made
Exhausted(c) == cursor[c].made /\ cursor[c].reader = NullReader
Active(c)    == cursor[c].made /\ cursor[c].reader # NullReader

\* c was returned by begin() of r and is the only iterator of r.
SoleCursor(c, r) ==
    /\ Made(c) /\ origin[c] = r /\ r # NullReader
    /\ \A d \in Cursors \ {c} : origin[d] # r

\* The Rows of r that were read where the input has a line.
RealRows(r) ==
    {j \in 1..Len(produced[r]) : j <= Len(LinesOf(stream[r].buf))}

LineOf(r, j) == LinesOf(stream[r].buf)[j]

RowsOf(r) == [j \in 1..Len(produced[r]) |-> produced[r][j].row]

\* ------------------------------------------------------------------
\* C1: for an input of exactly K well-formed lines, iterating with Begin and
\* then Advance until the cursor equals End() yields exactly K Rows, in
\* input order, the j-th Row being the parse of the j-th line: never more
\* than K Rows, and on reaching End() exactly the K Rows of the K lines.
C1_YieldsExactlyKRows ==
    \A r \in Readers, c \in Cursors :
        LET lines == LinesOf(stream[r].buf)
        IN (SoleCursor(c, r) /\ \A j \in 1..Len(lines) : WellFormed(lines[j]))
           => /\ Len(produced[r]) <= Len(lines)
              /\ Exhausted(c) => RowsOf(r) = [j \in 1..Len(lines) |-> RowOf(lines[j])]

\* ------------------------------------------------------------------
\* C2: the input "1,hello\n2,world\n" with field types (integer, text)
\* yields exactly two Rows, (1, "hello") then (2, "world"): no Row is
\* produced for the empty text after the last terminator, and the Advance
\* after the second Row makes the cursor Exhausted.
HelloWorld ==
    <<"1", ",", "h", "e", "l", "l", "o", "\n", "2", ",", "w", "o", "r", "l", "d", "\n">>

C2_NoRowAfterLastTerminator ==
    \A c \in Cursors :
        (SoleCursor(c, 1) /\ stream[1].buf = HelloWorld /\ Fields = <<"int", "str">>)
        => /\ Len(produced[1]) <= 2
           /\ Exhausted(c) =>
                  RowsOf(1) = << <<IntVal(1), StrVal(<<"h", "e", "l", "l", "o">>)>>,
                                 <<IntVal(2), StrVal(<<"w", "o", "r", "l", "d">>)>> >>

\* ------------------------------------------------------------------
\* C3: Begin on an empty input that nothing has read from returns a cursor
\* that is already Exhausted (NotEqual to End() is false), and no Row is
\* produced.
C3_BeginOnEmptyIsExhausted ==
    \A r \in Readers, c \in Cursors :
        (/\ lastOp.op = "begin" /\ lastOp.a = c /\ lastOp.b = r
         /\ stream[r].buf = <<>>
         /\ \A j \in 1..Len(produced[r]) : produced[r][j].c = c)
        => /\ ~operator_ne(cursor[c], iterator_default)
           /\ produced[r] = <<>>

\* ------------------------------------------------------------------
\* C4: Advance on an Exhausted cursor always fails with out_of_range; it
\* never silently does nothing and never restarts iteration, and it leaves
\* the cursor Exhausted and the stream position unchanged.  This holds for
\* End() and for a cursor that became Exhausted by advancing.
C4_AdvanceExhaustedFails ==
    [][\A c \in Cursors :
          (Exhausted(c) /\ lastOp'.op = "advance" /\ lastOp'.a = c)
          => /\ lastOp'.err = "out_of_range"
             /\ cursor'[c] = cursor[c]
             /\ stream' = stream
             /\ produced' = produced]_vars

\* An Advance has failed on a cursor that begin() returned and that became
\* Exhausted by advancing after a Row, next to a cursor that end() returned.
C4_Witness ==
    \E c \in Cursors, d \in Cursors :
        /\ lastOp.op = "advance" /\ lastOp.a = c /\ lastOp.err = "out_of_range"
        /\ Exhausted(c) /\ origin[c] # NullReader /\ produced[origin[c]] # <<>>
        /\ Exhausted(d) /\ origin[d] = NullReader

C6_ExhaustedIsTerminal ==
    [][\A c \in Cursors : Exhausted(c) => Exhausted(c)']_vars

\* A cursor that became Exhausted by advancing has been advanced again
\* while another cursor of the same reader is still Active.
C6_Witness ==
    \E c \in Cursors, d \in Cursors :
        /\ Exhausted(c) /\ origin[c] # NullReader
        /\ Active(d) /\ cursor[d].reader = origin[c]
        /\ lastOp.op = "advance" /\ lastOp.a = c /\ lastOp.err # ""

\* ------------------------------------------------------------------
\* C7: for every line and every i in 1..N, field i of the Row returned by
\* next_row is the conversion, to the i-th declared type, of the i-th
\* separator-delimited segment of that line counted from the left.
C7_FieldsInDeclarationOrder ==
    \A r \in Readers : \A j \in RealRows(r) :
        LET segs == SegmentsOf(LineOf(r, j))
        IN \A i \in 1..N :
              i <= Len(segs) => produced[r][j].row[i] \in Extract(Fields[i], segs[i])

\* ------------------------------------------------------------------
\* C8: if a line has more than N-1 separators, the Row has exactly N
\* fields, taken from the first N segments, and everything after the N-th
\* segment is discarded: it is in no field of this Row and in no field of a
\* later Row (the next Row starts at the next line).  Types (integer) and
\* input "7,8,9\n" give the Row (7).
FromOwnLine(r, k) ==
    LET e == produced[r][k]
    IN /\ e.text = IF k \in RealRows(r) THEN LineOf(r, k) ELSE <<>>
       /\ \A i \in 1..N :
             e.segs[i] = <<>> \/ \E m \in 1..Len(SegmentsOf(e.text)) :
                                    e.segs[i] = SegmentsOf(e.text)[m]

C8_ExcessSegmentsDiscarded ==
    /\ \A r \in Readers : \A j \in RealRows(r) :
          LET segs == SegmentsOf(LineOf(r, j))
              e    == produced[r][j]
          IN Len(segs) > N
             => /\ DOMAIN e.row = 1..N
                /\ \E p \in Permutations(1..N) :
                      \A i \in 1..N : /\ e.segs[i] = segs[p[i]]
                                      /\ e.row[i] \in Extract(Fields[i], segs[p[i]])
                /\ \A k \in j..Len(produced[r]) : FromOwnLine(r, k)
    /\ (Fields = <<"int">> /\ stream[1].buf = <<"7", ",", "8", ",", "9", "\n">>
           /\ produced[1] # <<>>)
          => produced[1][1].row = <<IntVal(7)>>

\* Two fields were taken from a line of three segments, and the next Row
\* was read after it.
C8_Witness ==
    /\ N = 2
    /\ Len(produced[1]) >= 2
    /\ Len(SegmentsOf(LineOf(1, 1))) = 3
    /\ produced[1][1].row[2] = StrVal(<<"a">>)

\* ------------------------------------------------------------------
\* C9: if a line has M < N segments, next_row still returns a Row of N
\* fields and does not fail: fields 1..M are converted from the M segments
\* and each of fields M+1..N from the empty string; no text of the
\* following line fills the missing fields.
C9_MissingFieldsFromEmpty ==
    \A r \in Readers : \A j \in RealRows(r) :
        LET segs == SegmentsOf(LineOf(r, j))
            e    == produced[r][j]
        IN Len(segs) < N
           => /\ DOMAIN e.row = 1..N
              /\ \A i \in 1..N :
                    e.row[i] \in Extract(Fields[i], IF i <= Len(segs) THEN segs[i] ELSE <<>>)
              /\ \A k \in j..Len(produced[r]) : FromOwnLine(r, k)

\* ------------------------------------------------------------------
\* C10: has_next_row is a pure query: a call changes neither the stream's
\* read position or end-of-input flag nor any cursor's cached Row or state,
\* and two consecutive calls return the same value.
C10_HasNextRowIsPure ==
    [][lastOp'.op = "has_next_row"
         => /\ stream' = stream
            /\ cursor' = cursor
            /\ produced' = produced
            /\ (lastOp.op = "has_next_row" /\ lastOp.a = lastOp'.a)
                  => lastOp'.ret = lastOp.ret]_vars

\* has_next_row was called, and returned true, on a reader whose stream has
\* been read to its last byte while a cursor of it holds a Row.
C10_Witness ==
    \E c \in Cursors :
        /\ lastOp.op = "has_next_row" /\ lastOp.ret
        /\ Active(c) /\ cursor[c].reader = lastOp.a
        /\ stream[lastOp.a].buf # <<>>
        /\ stream[lastOp.a].pos = Len(stream[lastOp.a].buf)

\* ------------------------------------------------------------------
\* C11: each successful next_row advances the stream's read position by
\* exactly one line (up to and including the next terminator, or to the end
\* of the input) and reads nothing beyond it; hence after any sequence of
\* Begin and Advance calls the number of lines consumed from the stream
\* equals the number of Rows produced.
Consumed(r) == SubSeq(stream[r].buf, 1, stream[r].pos)

AtLineBoundary(r) ==
    \/ stream[r].pos = 0
    \/ stream[r].pos = Len(stream[r].buf)
    \/ stream[r].buf[stream[r].pos] = "\n"

C11_OneLinePerRow ==
    \A r \in Readers :
        /\ AtLineBoundary(r)
        /\ Len(LinesOf(Consumed(r))) = Len(produced[r])

\* ------------------------------------------------------------------
\* C12: constructing a Reader and constructing the End() sentinel perform
\* no I/O: the stream's read position and end-of-input flag are the same
\* after the call as before, and only Begin and Advance ever read from the
\* stream.
C12_OnlyBeginAndAdvanceRead ==
    [][/\ lastOp'.op \in {"construct", "end"} => stream' = stream
       /\ stream' # stream => lastOp'.op \in {"begin", "advance"}]_vars

\* The second reader was constructed after the first one's stream was read
\* to the end and end() was called: its own stream is still unread.
C12_Witness ==
    /\ lastOp.op = "construct" /\ lastOp.a = 2
    /\ stream[1].eof
    /\ stream[2] = NewStream(OtherInput)
    /\ \E c \in Cursors : Made(c) /\ origin[c] = NullReader

RowsTo(c) ==
    LET all == produced[origin[c]]
    IN SelectSeq([j \in 1..Len(all) |-> all[j]], LAMBDA e : e.c = c)

C14_CurrentIsLatestRow ==
    [][/\ \A c \in Cursors :
            (Active(c) /\ lastOp'.op = "advance" /\ lastOp'.a = c
               /\ has_next_row(stream[cursor[c].reader]).ret)
            => LET r == cursor[c].reader
                   e == produced'[r][Len(produced'[r])]
               IN /\ Active(c)' /\ cursor'[c].reader = r
                  /\ Len(produced'[r]) = Len(produced[r]) + 1
                  /\ e.c = c
                  /\ e.text = SplitAt(SubSeq(stream[r].buf, stream[r].pos + 1,
                                             stream'[r].pos), "\n")[1]
                  /\ \A i \in 1..N : e.row[i] \in Extract(Fields[i], e.segs[i])
                  /\ cursor'[c].current_ = e.row
       /\ \A c \in Cursors :
            Active(c)' => cursor'[c].current_ = RowsTo(c)'[Len(RowsTo(c)')].row
       /\ lastOp'.op = "current"
            => /\ cursor' = cursor /\ stream' = stream
               /\ Active(lastOp'.a) =>
                     lastOp'.row = RowsTo(lastOp'.a)[Len(RowsTo(lastOp'.a))].row]_vars

\* Current() was called on an Active cursor that has been advanced to its
\* second Row, which differs from its first.
C14_Witness ==
    \E c \in Cursors :
        /\ lastOp.op = "current" /\ lastOp.a = c /\ Active(c)
        /\ Len(RowsTo(c)) = 2
        /\ RowsTo(c)[1].row # RowsTo(c)[2].row
        /\ lastOp.row = RowsTo(c)[2].row

\* ------------------------------------------------------------------
\* C15: next_row called when has_next_row() is false at entry fails with
\* out_of_range before reading anything: the stream position is unchanged
\* and no Row is returned.
C15_NextRowAtEofThrows ==
    [][(lastOp'.op = "next_row" /\ ~has_next_row(stream[lastOp'.a]).ret)
         => /\ lastOp'.err = "out_of_range"
            /\ lastOp'.row = <<>>
            /\ stream' = stream
            /\ produced' = produced
            /\ cursor' = cursor]_vars

\* next_row has thrown on a stream that an earlier next_row read to its end.
C15_Witness ==
    /\ lastOp.op = "next_row" /\ lastOp.err = "out_of_range"
    /\ stream[lastOp.a].eof /\ ~stream[lastOp.a].fail
    /\ produced[lastOp.a] # <<>>

\* ------------------------------------------------------------------
\* C16: a field whose text cannot be converted to its declared type never
\* makes Advance or next_row fail and never changes the iteration state:
\* the cursor stays Active, exactly one line is consumed, the main stream's
\* end-of-input flag is unaffected by the conversion failure, and every
\* other field of the same Row is still converted from its own segment.
\* operator>> sets failbit on a text of type T that holds no value.
ConversionFails(T, seg) ==
    IF T = "int" THEN TakeWhile(SkipWs(seg), Digits) = <<>>
    ELSE SkipWs(seg) = <<>>

C16_ConversionFailureIsLocal ==
    /\ \A r \in Readers : \A j \in RealRows(r) :
          LET segs == SegmentsOf(LineOf(r, j))
              e    == produced[r][j]
          IN \A i \in 1..N :
                (i <= Len(segs) /\ ConversionFails(Fields[i], segs[i]))
                => /\ \A k \in j..Len(produced[r]) : FromOwnLine(r, k)
                   /\ \A k \in 1..N \ {i} :
                         k <= Len(segs) => e.row[k] \in Extract(Fields[k], segs[k])
    /\ \A r \in Readers : stream[r].eof => stream[r].pos = Len(stream[r].buf)
    /\ \A c \in Cursors :
          (Made(c) /\ origin[c] # NullReader /\ ~stream[origin[c]].eof) => Active(c)
    /\ (lastOp.op = "begin" => lastOp.err = "")
    /\ (lastOp.op = "advance" /\ lastOp.err # "") => Exhausted(lastOp.a)

\* ------------------------------------------------------------------
\* C17: for every finite input of K lines, the loop
\*   c = Begin(reader); while NotEqual(c, End()) { Current(c); Advance(c) }
\* terminates: the cursor reaches Exhausted after at most K+1 row-producing
\* steps (Begin included), and no Advance in that loop fails.
C17_LoopTerminates ==
    /\ <>LoopDone
    /\ [](/\ Len(produced[1]) <= Len(LinesOf(stream[1].buf)) + 1
          /\ lastOp.err = ""
          /\ LoopDone => Exhausted(1))

\* The loop has ended on an input of two terminated lines after three Rows.
C17_Witness ==
    /\ LoopDone /\ Exhausted(1)
    /\ Len(LinesOf(stream[1].buf)) = 2
    /\ Len(produced[1]) = 3

\* ------------------------------------------------------------------
\* C18: a cursor becomes Exhausted only in an Advance (or Begin) that finds
\* the stream's end-of-input flag already set by an earlier line read; that
\* step reads nothing from the stream; and whenever the flag is not set at
\* entry, the Begin or the Advance of an Active cursor reads exactly one line
\* and leaves the cursor Active.
C18_ExhaustsOnlyOnFlagSetEarlier ==
    [][\A c \in Cursors :
          origin'[c] # NullReader
          => LET r == origin'[c]
                 taken == SubSeq(stream[r].buf, stream[r].pos + 1, stream'[r].pos)
             IN /\ (~Exhausted(c) /\ Exhausted(c)')
                     => /\ lastOp'.op \in {"begin", "advance"} /\ lastOp'.a = c
                        /\ stream[r].eof
                        /\ produced[r] # <<>>
                        /\ stream' = stream
                        /\ produced' = produced
                /\ (/\ lastOp'.op \in {"begin", "advance"} /\ lastOp'.a = c
                    /\ ~Exhausted(c) /\ ~stream[r].eof)
                     => /\ Active(c)'
                        /\ Len(produced'[r]) = Len(produced[r]) + 1
                        /\ stream[r].pos <= stream'[r].pos
                        /\ \A k \in 1..(Len(taken) - 1) : taken[k] # "\n"
                        /\ \/ taken # <<>> /\ taken[Len(taken)] = "\n"
                           \/ stream'[r].pos = Len(stream[r].buf)
                        /\ \A q \in Readers \ {r} : stream'[q] = stream[q]]_vars

\* begin() has returned an Exhausted cursor on a reader whose input another
\* cursor, still Active, had read to the end.
C18_Witness ==
    \E c \in Cursors, d \in Cursors :
        /\ lastOp.op = "begin" /\ lastOp.a = c /\ Exhausted(c)
        /\ origin[d] = origin[c] /\ Active(d)
        /\ stream[origin[c]].eof /\ ~stream[origin[c]].fail
        /\ Len(produced[origin[c]]) = 2

\* ------------------------------------------------------------------
\* C19: through the public calls the out_of_range of next_row is never
\* reached, because operator++ calls next_row only after has_next_row
\* returned true with no read in between; the only failure a caller sees is
\* that of advancing an Exhausted cursor.
C19_OnlyIllegalAdvanceFails ==
    [][/\ lastOp'.err # ""
            => /\ lastOp'.op = "advance"
               /\ Exhausted(lastOp'.a)
               /\ stream' = stream /\ cursor' = cursor /\ produced' = produced
       /\ \A c \in Cursors :
            (lastOp'.op \in {"begin", "advance"} /\ lastOp'.a = c /\ ~Exhausted(c))
            => LET r == origin'[c]
               IN /\ lastOp'.err = ""
                  /\ produced'[r] # produced[r] <=> ~stream[r].eof]_vars

\* With one cursor only, begin() and the advances read the input to its end,
\* the cursor became Exhausted without a failure, and the advance after that
\* failed.
C19_Witness ==
    \E c \in Cursors :
        /\ \A d \in Cursors \ {c} : ~Made(d)
        /\ origin[c] = 1 /\ Exhausted(c)
        /\ lastOp.op = "advance" /\ lastOp.a = c /\ lastOp.err = "out_of_range"
        /\ stream[1].eof /\ Len(produced[1]) >= 2

\* ------------------------------------------------------------------
\* C20: for any interleaving of Begin and Advance on cursors bound to one
\* reader, every line of the stream is delivered to at most one cursor and
\* the lines are delivered in stream order; when one cursor becomes Exhausted
\* the others stay Active (NotEqual to End()) with their cached Rows
\* unchanged until their own next Advance, which makes them Exhausted without
\* failing and without reading.
C20_InterleavedCursorsShareTheStream ==
    [][/\ \A r \in Readers :
            produced'[r] # produced[r]
            => LET j == Len(produced'[r])
                   c == lastOp'.a
               IN /\ lastOp'.op \in {"begin", "advance"}
                  /\ j = Len(produced[r]) + 1
                  /\ SubSeq(produced'[r], 1, j - 1) = produced[r]
                  /\ j <= Len(LinesOf(stream[r].buf)) + 1
                  /\ j <= Len(LinesOf(stream[r].buf)) => produced'[r][j].text = LineOf(r, j)
                  /\ produced'[r][j].c = c
                  /\ cursor'[c].reader = r
                  /\ cursor'[c].current_ = produced'[r][j].row
                  /\ \A d \in Cursors \ {c} : cursor'[d] = cursor[d]
       /\ \A c \in Cursors, d \in Cursors :
            (c # d /\ ~Exhausted(c) /\ Exhausted(c)' /\ Active(d))
            => /\ cursor'[d] = cursor[d]
               /\ operator_ne(cursor'[d], iterator_default)
       /\ \A c \in Cursors, d \in Cursors :
            (/\ c # d /\ Exhausted(c) /\ origin[c] # NullReader
             /\ Active(d) /\ cursor[d].reader = origin[c]
             /\ lastOp'.op = "advance" /\ lastOp'.a = d)
            => /\ Exhausted(d)'
               /\ lastOp'.err = ""
               /\ stream' = stream
               /\ produced' = produced]_vars

\* Two cursors of the first reader have each received a Row; one became
\* Exhausted, and the next Advance of the other has just made that one
\* Exhausted too.
C20_Witness ==
    \E c \in Cursors, d \in Cursors :
        /\ c # d /\ origin[c] = 1 /\ origin[d] = 1
        /\ Exhausted(c) /\ Exhausted(d)
        /\ RowsTo(c) # <<>> /\ RowsTo(d) # <<>>
        /\ lastOp.op = "advance" /\ lastOp.a = d /\ lastOp.err = ""

====
